---- MODULE Spec2Model ----
(***************************************************************************)
(* k2think-2api: the incremental stream translation engine.                *)
(*                                                                         *)
(* One streaming request (handleK2Stream, src/app.js; the two              *)
(* createK2Stream of src/src/index.js run the same loop body) and one      *)
(* aggregation request (aggregateStream) that is fed the same upstream     *)
(* chunks.                                                                 *)
(*                                                                         *)
(* Specifications:                                                         *)
(*   Spec          the streaming request                                   *)
(*   SpecFair      the same, the upstream call settles and the body ends   *)
(*                 or fails                                                *)
(*   SpecBoth      the streaming and the non-streaming request on the same *)
(*                 upstream chunks                                         *)
(*   SpecClose     the streaming request, the client may disconnect        *)
(*   SpecTwo       two streaming requests handled at the same time         *)
(*   SpecStamp     one of them while the clock advances                    *)
(*   SpecReadable  createK2Stream of src/src/index.js:627, whose read()    *)
(*                 method does the work                                    *)
(*   SpecDecoder   extractContentFromJson on every shape of object         *)
(*   SpecBytes     the decoding of the bytes of the chunks, by data        *)
(*                 handler                                                 *)
(*   SpecAuth      authenticateApiKey on every key setting and header      *)
(*                                                                         *)
(* Text representation.  Upstream text is a sequence of wire units, each a *)
(* record [t, s, obj]:                                                     *)
(*   t = "nl"    the newline character                                     *)
(*   t = "data"  the five characters  data:                                *)
(*   t = "sp"    one blank                                                 *)
(*   t = "txt"   other raw text, s is its content token                    *)
(*   t = "json"  the text of one complete JSON value, obj is the value     *)
(* A content string (a snapshot, a section, a delta) is a sequence of      *)
(* content tokens (strings): the tags "DO" <details type="reasoning">,     *)
(* "SO" <summary>, "SC" </summary>, "DC" </details>, "AO" <answer>,        *)
(* "AC" </answer>, the blank " ", the line feed "LF", the two characters   *)
(* backslash-n "BSN", and letters.  A token counts as one character for    *)
(* length and substring.                                                   *)
(***************************************************************************)
EXTENDS Integers, Sequences, FiniteSets, TLC

VARIABLES
  status,             \* position of handleK2Stream: new, fetching, streaming,
                      \* ended, errored (body error), refused (non-success
                      \* status), failed (fetch rejected)
  buffer,             \* carry-over buffer of the data handler (wire units)
  accumulatedContent, \* latest snapshot
  previousReasoning,
  previousAnswer,
  reasoningPhase,
  frames,             \* everything written to the response, in order
  upstream,           \* history: the chunks the upstream body has delivered
  updates,            \* history: one record per snapshot update of the engine
  terminalSeen,       \* history: a done === true line has been decoded
  lateDecoded,        \* history: lines decoded after terminalSeen
  decodeLog,          \* history: one record per line that reached the try block
  clientClosed,       \* the client has closed the connection
  readAfterClose,     \* history: chunks handled after the client closed
  yielded,            \* history: the complete lines the data handler has split off
  aggStatus,          \* position of the non-streaming request: reading,
                      \* resolved, rejected (body error), failed (status)
  aggPos,             \* chunks of upstream the aggregation has consumed
  aggBuffer,
  pieces,
  aggResult,          \* the string aggregateStream resolves with
  aggTerminalSeen,
  aggLateDecoded,
  aggDecodeLog,
  aggResponses,       \* what the non-streaming route has sent to its client
  requests,           \* several streaming requests at once: the variables each
                      \* call of handleK2Stream closes over, by request
  flows,              \* createK2Stream as a Readable (src/src/index.js:627):
                      \* the invocations of read(), each with its position and
                      \* its own carry-over buffer
  readable,           \* that Readable: ended (push(null) was called), destroyed
  decInput,           \* the decoder alone: its argument
  decResult,          \* the decoder alone: whether it was called, what it gave
  clock,              \* Math.floor(Date.now() / 1000)
  bytesPath,          \* decoding alone: the data handler that runs
  bytesIn,            \* the chunks of bytes the body has delivered
  bytesPending,       \* the bytes the TextDecoder holds back
  bytesText,          \* the text appended to the buffer so far
  authEnv,            \* authentication alone: process.env.CLIENT_API_KEY
  authHeader,         \* req.headers.authorization
  authResult,         \* what authenticateApiKey did: pending, next, or the
                      \* message of its 401 response
  authCalls           \* upstream calls made for the request

streamVars == <<status, buffer, accumulatedContent, previousReasoning,
                previousAnswer, reasoningPhase, frames, upstream, updates,
                terminalSeen, lateDecoded, decodeLog, clientClosed,
                readAfterClose, yielded>>

aggVars == <<aggStatus, aggPos, aggBuffer, pieces, aggResult, aggTerminalSeen,
             aggLateDecoded, aggDecodeLog, aggResponses>>

bytesVars == <<bytesPath, bytesIn, bytesPending, bytesText>>

authVars == <<authEnv, authHeader, authResult, authCalls>>

moreVars == <<clock, bytesVars, authVars>>

otherVars == <<requests, flows, readable, decInput, decResult, moreVars>>

vars == <<streamVars, aggVars, requests, flows, readable, decInput, decResult,
          moreVars>>

\* Number of chunks the upstream body delivers at most.
MaxChunks == 2

-----------------------------------------------------------------------------
(* Strings *)

\* The one element of a singleton set.  Used as  The({ F(v) : v \in {e} })  to
\* bind v to the value of e: a bound variable is evaluated once, a LET
\* definition at every use.
The(S) == CHOOSE v \in S : TRUE

IsSpace(c) == c \in {" ", "LF"}

RECURSIVE TrimLeft(_)
TrimLeft(s) ==
  IF s = <<>> THEN <<>>
  ELSE IF IsSpace(Head(s)) THEN TrimLeft(Tail(s)) ELSE s

RECURSIVE TrimRight(_)
TrimRight(s) ==
  IF s = <<>> THEN <<>>
  ELSE IF IsSpace(s[Len(s)]) THEN TrimRight(SubSeq(s, 1, Len(s) - 1)) ELSE s

\* String.prototype.trim
Trim(s) == TrimRight(TrimLeft(s))

\* String.prototype.substring(n), 0-based n
Substring(s, n) == IF n >= Len(s) THEN <<>> ELSE SubSeq(s, n + 1, Len(s))

\* index of the first occurrence of tok in s at or after position from, 0 if none
RECURSIVE FirstAt(_, _, _)
FirstAt(s, tok, from) ==
  IF from < 1 \/ from > Len(s) THEN 0
  ELSE IF s[from] = tok THEN from
  ELSE FirstAt(s, tok, from + 1)

IsPrefix(p, s) == Len(p) <= Len(s) /\ SubSeq(s, 1, Len(p)) = p

-----------------------------------------------------------------------------
(* Section Extractor *)

\* a plausible bug: the block need not be closed, the text after the summary
\* is captured up to </details> or to the end of the snapshot
ReasoningMatchOpenBlock(content) ==
  LET d  == FirstAt(content, "DO", 1)
      so == IF d = 0 THEN 0 ELSE FirstAt(content, "SO", d + 1)
      sc == IF so = 0 THEN 0 ELSE FirstAt(content, "SC", so + 1)
      dc == IF sc = 0 THEN 0 ELSE FirstAt(content, "DC", sc + 1)
  IN [found |-> sc # 0,
      group |-> IF sc = 0 THEN <<>>
                ELSE IF dc = 0 THEN SubSeq(content, sc + 1, Len(content))
                ELSE SubSeq(content, sc + 1, dc - 1)]

\* a plausible bug: the answer need not be closed
AnswerMatchOpen(content) ==
  LET ao == FirstAt(content, "AO", 1)
      ac == IF ao = 0 THEN 0 ELSE FirstAt(content, "AC", ao + 1)
  IN [found |-> ao # 0,
      group |-> IF ao = 0 THEN <<>>
                ELSE IF ac = 0 THEN SubSeq(content, ao + 1, Len(content))
                ELSE SubSeq(content, ao + 1, ac - 1)]

\* /<details type="reasoning"[^>]*>.*?<summary>.*?<\/summary>(.*?)<\/details>/s
\* the leftmost match with every lazy quantifier as short as possible: the
\* first opening tag, then the first <summary>, </summary>, </details> after it.
ReasoningMatch(content) ==
  LET d  == FirstAt(content, "DO", 1)
      so == IF d = 0 THEN 0 ELSE FirstAt(content, "SO", d + 1)
      sc == IF so = 0 THEN 0 ELSE FirstAt(content, "SC", so + 1)
      dc == IF sc = 0 THEN 0 ELSE FirstAt(content, "DC", sc + 1)
  IN [found |-> dc # 0,
      group |-> IF dc = 0 THEN <<>> ELSE SubSeq(content, sc + 1, dc - 1)]

\* /<answer>(.*?)<\/answer>/s
AnswerMatch(content) ==
  LET ao == FirstAt(content, "AO", 1)
      ac == IF ao = 0 THEN 0 ELSE FirstAt(content, "AC", ao + 1)
  IN [found |-> ac # 0,
      group |-> IF ac = 0 THEN <<>> ELSE SubSeq(content, ao + 1, ac - 1)]

ReasoningOf(content) ==
  LET m == ReasoningMatch(content) IN IF m.found THEN Trim(m.group) ELSE <<>>

AnswerOf(content) ==
  LET m == AnswerMatch(content) IN IF m.found THEN Trim(m.group) ELSE <<>>

extractReasoningAndAnswer(content) ==
  IF content = <<>> THEN <<(<<>>), (<<>>)>>
  ELSE <<ReasoningOf(content), AnswerOf(content)>>

-----------------------------------------------------------------------------
(* Delta rule *)

\* a plausible bug: the whole current value is the delta
calculateDeltaContentWhole(previous, current) == current

\* a plausible bug: a value that does not extend the previous one starts over
calculateDeltaContentRestart(previous, current) ==
  IF previous = <<>> THEN current
  ELSE IF current = <<>> THEN <<>>
  ELSE IF IsPrefix(previous, current) THEN Substring(current, Len(previous))
  ELSE current

calculateDeltaContent(previous, current) ==
  IF previous = <<>> THEN current
  ELSE IF current = <<>> THEN <<>>
  ELSE Substring(current, Len(previous))

-----------------------------------------------------------------------------
(* Payload Decoder *)

\* A parsed JSON value.  kind "object" or "scalar" (a number, a string, null);
\* usage: obj.usage is truthy; done: obj.done === true; choices: "none" (no
\* array), "empty" (an empty array), "null" (an array whose first element is
\* null) or "delta" (a first element that is an object, whose delta.content is
\* dcontent and delta.role is drole; both empty when it has no delta);
\* hasContent: typeof obj.content === "string".
JsonValue(kind, usage, done, choices, dcontent, drole, hasContent, content) ==
  [kind |-> kind, usage |-> usage, done |-> done, choices |-> choices,
   dcontent |-> dcontent, drole |-> drole, hasContent |-> hasContent,
   content |-> content]

NoObj == JsonValue("none", FALSE, FALSE, "none", <<>>, "", FALSE, <<>>)

\* the returned [contentPiece, isDone, usage, role]; threw: no value is
\* returned, a TypeError is thrown instead
Decoded(piece, isDone, usage, role) ==
  [piece |-> piece, isDone |-> isDone, usage |-> usage, role |-> role,
   threw |-> FALSE]

\* obj.choices[0].delta with obj.choices[0] === null
Raised ==
  [piece |-> <<>>, isDone |-> FALSE, usage |-> FALSE, role |-> "", threw |-> TRUE]

\* a plausible bug: the done flag is probed before the usage field
extractContentFromJsonDoneFirst(obj) ==
  IF obj.kind # "object" THEN Decoded(<<>>, FALSE, FALSE, "")
  ELSE IF obj.done THEN Decoded(<<>>, TRUE, obj.usage, "")
  ELSE IF obj.usage THEN Decoded(<<>>, FALSE, TRUE, "")
  ELSE IF obj.choices = "null" THEN Raised
  ELSE IF obj.choices = "delta" THEN Decoded(obj.dcontent, FALSE, FALSE, obj.drole)
  ELSE IF obj.hasContent THEN Decoded(obj.content, FALSE, FALSE, "")
  ELSE Decoded(<<>>, FALSE, FALSE, "")

extractContentFromJson(obj) ==
  IF obj.kind # "object" THEN Decoded(<<>>, FALSE, FALSE, "")
  ELSE IF obj.usage THEN Decoded(<<>>, FALSE, TRUE, "")
  ELSE IF obj.done THEN Decoded(<<>>, TRUE, obj.usage, "")
  ELSE IF obj.choices = "null" THEN Raised
  ELSE IF obj.choices = "delta" THEN Decoded(obj.dcontent, FALSE, FALSE, obj.drole)
  ELSE IF obj.hasContent THEN Decoded(obj.content, FALSE, FALSE, "")
  ELSE Decoded(<<>>, FALSE, FALSE, "")

-----------------------------------------------------------------------------
(* Wire units and the Frame Splitter *)

Unit(t, s, obj) == [t |-> t, s |-> s, obj |-> obj]
NL     == Unit("nl", "LF", NoObj)
DATA   == Unit("data", "data:", NoObj)
SP     == Unit("sp", " ", NoObj)
Txt(s) == Unit("txt", s, NoObj)
Json(obj) == Unit("json", "{json}", obj)

\* buffer.split("\n"): the complete lines, and the fragment after the last newline
RECURSIVE SplitFrom(_, _, _)
SplitFrom(text, lines, cur) ==
  IF text = <<>> THEN [lines |-> lines, rest |-> cur]
  ELSE IF Head(text).t = "nl" THEN SplitFrom(Tail(text), Append(lines, cur), <<>>)
  ELSE SplitFrom(Tail(text), lines, Append(cur, Head(text)))

Split(text) == SplitFrom(text, <<>>, <<>>)

\* a plausible bug: the unterminated last piece is not kept for the next chunk
CarryOverDropped(sp) == <<>>

\* buffer = lines.pop() || ''
CarryOver(sp) == sp.rest

\* line.startsWith("data:")
StartsWithData(line) == line # <<>> /\ line[1].t = "data"

RECURSIVE TrimUnitsLeft(_)
TrimUnitsLeft(u) ==
  IF u = <<>> THEN <<>>
  ELSE IF Head(u).t = "sp" THEN TrimUnitsLeft(Tail(u)) ELSE u

RECURSIVE TrimUnitsRight(_)
TrimUnitsRight(u) ==
  IF u = <<>> THEN <<>>
  ELSE IF u[Len(u)].t = "sp" THEN TrimUnitsRight(SubSeq(u, 1, Len(u) - 1)) ELSE u

\* line.substring(5).trim()
DataStr(line) == TrimUnitsRight(TrimUnitsLeft(Tail(line)))

\* a plausible bug: the lower-case sentinel is forgotten
SentinelsNoLowerCase == {"-1", "[DONE]", "DONE"}

Sentinels == {"-1", "[DONE]", "DONE", "done"}

\* !dataStr || ["-1", "[DONE]", "DONE", "done"].includes(dataStr)
IsFiltered(dataStr) ==
  \/ dataStr = <<>>
  \/ Len(dataStr) = 1 /\ dataStr[1].t = "txt" /\ dataStr[1].s \in Sentinels

\* JSON.parse(dataStr) returns (does not throw)
Parses(dataStr) == Len(dataStr) = 1 /\ dataStr[1].t = "json"

\* the payload text itself, as a content string
AsContent(dataStr) == [i \in 1..Len(dataStr) |-> dataStr[i].s]

-----------------------------------------------------------------------------
(* Frame Encoder *)

Frame(type, key, text, finish) ==
  [type |-> type, key |-> key, text |-> text, finish |-> finish]

\* createStreamChunk(streamId, createdTime, model, delta, finishReason) with
\* delta = {} (key "") or delta = {key: text}
createStreamChunk(key, text, finishReason) == Frame("chunk", key, text, finishReason)

RoleFrame           == createStreamChunk("role", <<"assistant">>, "")
ReasoningFrame(txt) == createStreamChunk("reasoning_content", txt, "")
AnswerFrame(txt)    == createStreamChunk("content", txt, "")
StopFrame           == createStreamChunk("", <<>>, "stop")
DoneFrame           == Frame("done", "", <<>>, "")        \* "data: [DONE]\n\n"
ErrorFrame(msg)     == Frame("error", "", <<msg>>, "")    \* data: {"error": msg}

\* a plausible bug: the closing chunk is forgotten
EndFramesNoStop == <<DoneFrame>>

\* what the 'end' handler writes
EndFrames == <<StopFrame, DoneFrame>>

-----------------------------------------------------------------------------
(* Delta Engine: one snapshot update *)

\* The translation state the data handler closes over, with the history it
\* leaves behind.
EngineState(acc, pr, pa, ph, fr, up, ts, late, log) ==
  [accumulatedContent |-> acc, previousReasoning |-> pr, previousAnswer |-> pa,
   reasoningPhase |-> ph, frames |-> fr, updates |-> up, terminalSeen |-> ts,
   lateDecoded |-> late, decodeLog |-> log]

\* a plausible bug: previousReasoning is advanced outside the trim check
ReasoningStepAlwaysAdvance(phase, previous, current) ==
  LET reasoningDelta == calculateDeltaContent(previous, current)
  IN IF phase /\ current # <<>>
     THEN [out |-> IF Trim(reasoningDelta) # <<>>
                   THEN <<ReasoningFrame(reasoningDelta)>> ELSE <<>>,
           previous |-> current]
     ELSE [out |-> <<>>, previous |-> previous]

\* a plausible bug: the phase is not consulted
ReasoningStepAnyPhase(phase, previous, current) ==
  LET reasoningDelta == calculateDeltaContent(previous, current)
  IN IF current # <<>> /\ Trim(reasoningDelta) # <<>>
     THEN [out |-> <<ReasoningFrame(reasoningDelta)>>, previous |-> current]
     ELSE [out |-> <<>>, previous |-> previous]

\* if (reasoningPhase && currentReasoning) { ... }
\* result: the frames written and the new previousReasoning
ReasoningStep(phase, previous, current) ==
  LET reasoningDelta == calculateDeltaContent(previous, current)
  IN IF phase /\ current # <<>> /\ Trim(reasoningDelta) # <<>>
     THEN [out |-> <<ReasoningFrame(reasoningDelta)>>, previous |-> current]
     ELSE [out |-> <<>>, previous |-> previous]

\* a plausible bug: the inner branch measures the delta from the start
TransitionStepFlushWhole(phase, previous, currentReasoning, currentAnswer) ==
  IF currentAnswer # <<>> /\ phase
  THEN LET entered == currentReasoning # <<>> /\ currentReasoning # previous
           reasoningDelta == calculateDeltaContent(<<>>, currentReasoning)
       IN [phase |-> FALSE,
           entered |-> entered,
           out |-> IF entered /\ Trim(reasoningDelta) # <<>>
                   THEN <<ReasoningFrame(reasoningDelta)>> ELSE <<>>]
  ELSE [phase |-> phase, entered |-> FALSE, out |-> <<>>]

\* if (currentAnswer && reasoningPhase) { reasoningPhase = false; if (...) {...} }
\* previous is previousReasoning after the reasoning step
\* result: the frames written, the new phase, whether the inner branch ran
TransitionStep(phase, previous, currentReasoning, currentAnswer) ==
  IF currentAnswer # <<>> /\ phase
  THEN LET entered == currentReasoning # <<>> /\ currentReasoning # previous
           reasoningDelta == calculateDeltaContent(previous, currentReasoning)
       IN [phase |-> FALSE,
           entered |-> entered,
           out |-> IF entered /\ Trim(reasoningDelta) # <<>>
                   THEN <<ReasoningFrame(reasoningDelta)>> ELSE <<>>]
  ELSE [phase |-> phase, entered |-> FALSE, out |-> <<>>]

\* a plausible bug: the delta is written without looking at it
AnswerStepNoTrimCheck(phase, previous, current) ==
  LET answerDelta == calculateDeltaContent(previous, current)
  IN IF ~phase /\ current # <<>>
     THEN [out |-> <<AnswerFrame(answerDelta)>>, previous |-> current]
     ELSE [out |-> <<>>, previous |-> previous]

\* a plausible bug: previousAnswer is advanced outside the trim check
AnswerStepAlwaysAdvance(phase, previous, current) ==
  LET answerDelta == calculateDeltaContent(previous, current)
  IN IF ~phase /\ current # <<>>
     THEN [out |-> IF Trim(answerDelta) # <<>>
                   THEN <<AnswerFrame(answerDelta)>> ELSE <<>>,
           previous |-> current]
     ELSE [out |-> <<>>, previous |-> previous]

\* a plausible bug: previousAnswer is not advanced
AnswerStepNoAdvance(phase, previous, current) ==
  LET answerDelta == calculateDeltaContent(previous, current)
  IN IF ~phase /\ current # <<>> /\ Trim(answerDelta) # <<>>
     THEN [out |-> <<AnswerFrame(answerDelta)>>, previous |-> previous]
     ELSE [out |-> <<>>, previous |-> previous]

\* if (!reasoningPhase && currentAnswer) { ... }
\* phase is reasoningPhase after the transition step
AnswerStep(phase, previous, current) ==
  LET answerDelta == calculateDeltaContent(previous, current)
  IN IF ~phase /\ current # <<>> /\ Trim(answerDelta) # <<>>
     THEN [out |-> <<AnswerFrame(answerDelta)>>, previous |-> current]
     ELSE [out |-> <<>>, previous |-> previous]

\* if (contentPiece) { accumulatedContent = contentPiece; ... }
SectionUpdate(st, contentPiece, currentReasoning, currentAnswer) ==
  LET r == ReasoningStep(st.reasoningPhase, st.previousReasoning, currentReasoning)
      t == TransitionStep(st.reasoningPhase, r.previous, currentReasoning, currentAnswer)
      a == AnswerStep(t.phase, st.previousAnswer, currentAnswer)
      emitted == r.out \o t.out \o a.out
      log == [snapshot |-> contentPiece,
              reasoning |-> currentReasoning, answer |-> currentAnswer,
              prePhase |-> st.reasoningPhase, postPhase |-> t.phase,
              preReasoning |-> st.previousReasoning, postReasoning |-> r.previous,
              preAnswer |-> st.previousAnswer, postAnswer |-> a.previous,
              flushEntered |-> t.entered, flushOut |-> t.out,
              emitted |-> emitted]
  IN EngineState(contentPiece, r.previous, a.previous, t.phase,
                 st.frames \o emitted, Append(st.updates, log),
                 st.terminalSeen, st.lateDecoded, st.decodeLog)

SnapshotUpdate(st, contentPiece) ==
  The({ SectionUpdate(st, contentPiece, ex[1], ex[2]) :
        ex \in {extractReasoningAndAnswer(contentPiece)} })

-----------------------------------------------------------------------------
(* Stream Driver: the lines of one chunk, streaming mode *)

\* the body of  for (const line of lines)  in the 'data' handler;
\* stop is the  if (isDone) return;  that leaves the handler
\* One line that reached the try block: its payload, whether the catch
\* branch ran, the content piece it left, whether it was the terminal line.
Decode(payload, raw, piece, isDone) ==
  [payload |-> payload, raw |-> raw, piece |-> piece, isDone |-> isDone]

\* a plausible bug: a payload that cannot be parsed is dropped
CatchPieceNone(dataStr) == <<>>

\* catch { contentPiece = dataStr; }
CatchPiece(dataStr) == AsContent(dataStr)

ProcessPayload(dataStr, st) ==
  IF IsFiltered(dataStr) THEN [st |-> st, stop |-> FALSE]
  ELSE
    LET seen == [st EXCEPT !.lateDecoded =
                   IF st.terminalSeen THEN @ + 1 ELSE @]
        d == IF Parses(dataStr) THEN extractContentFromJson(dataStr[1].obj)
             ELSE Raised       \* JSON.parse throws
        contentPiece == IF d.threw THEN CatchPiece(dataStr) ELSE d.piece
        logged == [seen EXCEPT !.decodeLog =
                     Append(@, Decode(dataStr, d.threw, contentPiece, d.isDone))]
    IN IF d.isDone
       THEN [st |-> [logged EXCEPT !.terminalSeen = TRUE], stop |-> TRUE]
       ELSE IF contentPiece # <<>>
       THEN [st |-> SnapshotUpdate(logged, contentPiece), stop |-> FALSE]
       ELSE [st |-> logged, stop |-> FALSE]

ProcessLine(line, st) ==
  IF ~StartsWithData(line) THEN [st |-> st, stop |-> FALSE]
  ELSE The({ ProcessPayload(dataStr, st) : dataStr \in {DataStr(line)} })

RECURSIVE ProcessLines(_, _)
ProcessLines(lines, st) ==
  IF lines = <<>> THEN st
  ELSE The({ IF r.stop THEN r.st ELSE ProcessLines(Tail(lines), r.st) :
             r \in {ProcessLine(Head(lines), st)} })

-----------------------------------------------------------------------------
(* Aggregation mode *)

AggState(p, ts, late, log) ==
  [pieces |-> p, terminalSeen |-> ts, lateDecoded |-> late, decodeLog |-> log]

\* the body of  for (const line of lines)  in aggregateStream
AggPayload(dataStr, st) ==
  IF IsFiltered(dataStr) THEN st
  ELSE
    LET seen == [st EXCEPT !.lateDecoded =
                   IF st.terminalSeen THEN @ + 1 ELSE @]
        d == IF Parses(dataStr) THEN extractContentFromJson(dataStr[1].obj)
             ELSE Raised       \* JSON.parse throws
        piece == IF d.threw THEN CatchPiece(dataStr) ELSE d.piece
        logged == [seen EXCEPT !.decodeLog =
                     Append(@, Decode(dataStr, d.threw, piece, d.isDone))]
    IN IF d.isDone THEN [logged EXCEPT !.terminalSeen = TRUE]   \* continue
       ELSE IF piece # <<>> THEN [logged EXCEPT !.pieces = Append(@, piece)]
       ELSE logged

AggLine(line, st) ==
  IF ~StartsWithData(line) THEN st
  ELSE The({ AggPayload(dataStr, st) : dataStr \in {DataStr(line)} })

RECURSIVE AggLines(_, _)
AggLines(lines, st) ==
  IF lines = <<>> THEN st
  ELSE The({ AggLines(Tail(lines), next) : next \in {AggLine(Head(lines), st)} })

\* pieces.join("")
RECURSIVE Join(_)
Join(ps) == IF ps = <<>> THEN <<>> ELSE Head(ps) \o Join(Tail(ps))

\* answerContent.replace(/\\n/g, "\n")
ReplaceBackslashN(s) == [i \in 1..Len(s) |-> IF s[i] = "BSN" THEN "LF" ELSE s[i]]

\* what the 'end' handler of aggregateStream resolves with
AggregateResult(ps) ==
  ReplaceBackslashN(extractReasoningAndAnswer(Join(ps))[2])

-----------------------------------------------------------------------------
(* What the upstream may send *)

Summary  == <<"DO", "SO", "x", "SC">>
Block(r) == Summary \o r \o <<"DC">>       \* a complete reasoning block
Open(r)  == Summary \o r                   \* a block not yet closed
Ans(a)   == <<"AO">> \o a \o <<"AC">>

Snapshots ==
  { Open(<<"s">>),
    Block(<<"s">>), Block(<<"s", "t">>), Block(<<"t">>),
    Block(<<"s">>) \o Ans(<<"h">>),
    Block(<<"s", "t">>) \o Ans(<<"h">>),
    Block(<<"s", "t">>) \o Ans(<<"h", "i">>),
    Ans(<<"h">>), Ans(<<"h", "i">>), Ans(<<"i">>),
    Block(<<"s">>) \o <<"AO", "h">>,
    Block(<<" ", "s", " ">>),
    Block(<<" ">>) \o Ans(<<" ">>),
    <<"x">>,
    <<"SO", "x", "SC", "s", "DC">>,
    <<"DO", "s", "DC">> }

ContentObj(c)  == JsonValue("object", FALSE, FALSE, "none", <<>>, "", TRUE, c)
DeltaObj(c, r) == JsonValue("object", FALSE, FALSE, "delta", c, r, FALSE, <<>>)
DoneObj        == JsonValue("object", FALSE, TRUE, "none", <<>>, "", FALSE, <<>>)
UsageObj       == JsonValue("object", TRUE, FALSE, "none", <<>>, "", FALSE, <<>>)
UsageDoneObj   == JsonValue("object", TRUE, TRUE, "none", <<>>, "", TRUE, <<"x">>)
EmptyObj       == JsonValue("object", FALSE, FALSE, "empty", <<>>, "", FALSE, <<>>)
NullChoiceObj  == JsonValue("object", FALSE, FALSE, "null", <<>>, "", TRUE, <<"x">>)
ScalarValue    == JsonValue("scalar", FALSE, FALSE, "none", <<>>, "", FALSE, <<>>)

DataLine(payload) == <<DATA, SP>> \o payload

Lines ==
  { DataLine(<<Json(ContentObj(c))>>) : c \in Snapshots }
  \cup
  { DataLine(<<Json(DeltaObj(Block(<<"s", "t">>) \o Ans(<<"h">>), "assistant"))>>),
    DataLine(<<Json(DoneObj)>>),
    DataLine(<<Json(UsageObj)>>),
    DataLine(<<Json(UsageDoneObj)>>),
    DataLine(<<Json(EmptyObj)>>),
    DataLine(<<Json(NullChoiceObj)>>),
    DataLine(<<Json(ScalarValue)>>),
    DataLine(<<Txt("AO"), Txt("h"), Txt("AC")>>),   \* raw text, not JSON
    DataLine(<<Txt("{not json")>>),
    DataLine(<<Txt("[DONE]")>>),
    DataLine(<<Txt("done"), SP>>),
    DataLine(<<>>),
    <<Txt(": ping")>> }

AnswerLine(a) == DataLine(<<Json(ContentObj(Ans(a)))>>)

Chunks ==
  { l \o <<NL>> : l \in Lines }
  \cup
  { \* several lines in one chunk
    DataLine(<<Json(DoneObj)>>) \o <<NL>> \o AnswerLine(<<"h">>) \o <<NL>>,
    AnswerLine(<<"h">>) \o <<NL>> \o DataLine(<<Json(DoneObj)>>) \o <<NL>>,
    DataLine(<<Json(ContentObj(Block(<<"s">>)))>>) \o <<NL>>
      \o DataLine(<<Json(ContentObj(Block(<<"s", "t">>) \o Ans(<<"h">>)))>>) \o <<NL>>,
    \* a line cut by the chunk boundary
    <<DATA>>,
    <<SP, Json(ContentObj(Ans(<<"h", "i">>))), NL>>,
    AnswerLine(<<"h">>),
    <<NL>> }

\* what the upstream sends where several bodies are read side by side
FewChunks ==
  { DataLine(<<Json(ContentObj(Block(<<"s">>)))>>) \o <<NL>>,
    DataLine(<<Json(ContentObj(Block(<<"s", "t">>) \o Ans(<<"h">>)))>>) \o <<NL>>,
    AnswerLine(<<"h", "i">>) \o <<NL>>,
    AnswerLine(<<"i">>) }

\* what each body read by an invocation of read() may deliver
FlowChunks == FewChunks \cup { DataLine(<<Json(DoneObj)>>) \o <<NL>> }

\* every shape of payload object the decoder can be handed
JsonValues ==
  { JsonValue(kind, usage, done, choices, dcontent, drole, hasContent, content) :
      kind \in {"object", "scalar"}, usage \in BOOLEAN, done \in BOOLEAN,
      choices \in {"none", "empty", "null", "delta"},
      dcontent \in {<<>>, <<"c">>}, drole \in {"", "assistant"},
      hasContent \in BOOLEAN, content \in {<<>>, <<"x">>} }

-----------------------------------------------------------------------------
(* Initial values *)

\* the clients whose requests are handled at the same time
Requests == {"a", "b"}

\* what one call of handleK2Stream closes over, and what it has written and read
\* streamId and createdTime are its constants; stamps is the history of the
\* id and created fields of the chunks it has written
Request(st, buf, acc, pr, pa, ph, fr, up, id, created, stamps) ==
  [status |-> st, buffer |-> buf, accumulatedContent |-> acc,
   previousReasoning |-> pr, previousAnswer |-> pa, reasoningPhase |-> ph,
   frames |-> fr, upstream |-> up,
   streamId |-> id, createdTime |-> created, stamps |-> stamps]

NewRequest == Request("new", <<>>, <<>>, <<>>, <<>>, TRUE, <<>>, <<>>, <<>>, 0, <<>>)

\* one invocation of read(): where it stands, and its  let buffer = ""
Flow(pc, buf) == [pc |-> pc, buffer |-> buf]

NewReadable == [ended |-> FALSE, destroyed |-> FALSE]

NotDecoded == [called |-> FALSE, result |-> Decoded(<<>>, FALSE, FALSE, "")]

InitStream ==
  /\ status = "new"
  /\ buffer = <<>>
  /\ accumulatedContent = <<>>
  /\ previousReasoning = <<>>
  /\ previousAnswer = <<>>
  /\ reasoningPhase = TRUE
  /\ frames = <<>>
  /\ upstream = <<>>
  /\ updates = <<>>
  /\ terminalSeen = FALSE
  /\ lateDecoded = 0
  /\ decodeLog = <<>>
  /\ clientClosed = FALSE
  /\ readAfterClose = 0
  /\ yielded = <<>>

InitAgg ==
  /\ aggStatus = "reading"
  /\ aggPos = 0
  /\ aggBuffer = <<>>
  /\ pieces = <<>>
  /\ aggResult = <<>>
  /\ aggTerminalSeen = FALSE
  /\ aggLateDecoded = 0
  /\ aggDecodeLog = <<>>
  /\ aggResponses = <<>>

InitOthers ==
  /\ requests = [r \in Requests |-> NewRequest]
  /\ flows = <<>>
  /\ readable = NewReadable
  /\ clock = 0

\* nothing has been decoded
InitBytesRest ==
  /\ bytesIn = <<>>
  /\ bytesPending = <<>>
  /\ bytesText = <<>>

\* no request has reached the middleware
InitAuthRest ==
  /\ authResult = "pending"
  /\ authCalls = 0

InitMore ==
  /\ bytesPath = "app.js handleK2Stream"
  /\ InitBytesRest
  /\ authEnv = [set |-> FALSE, text |-> <<>>]
  /\ authHeader = [present |-> FALSE, text |-> <<>>]
  /\ InitAuthRest

Init ==
  /\ InitStream
  /\ InitAgg
  /\ InitOthers
  /\ decInput = NoObj
  /\ decResult = NotDecoded
  /\ InitMore

-----------------------------------------------------------------------------
(* The streaming request: handleK2Stream *)

\* res.writeHead(200, ...); res.write(role chunk); then the upstream call
StartRequest ==
  /\ status = "new"
  /\ frames' = Append(frames, RoleFrame)
  /\ status' = "fetching"
  /\ UNCHANGED <<buffer, accumulatedContent, previousReasoning, previousAnswer,
                 reasoningPhase, upstream, updates, terminalSeen, lateDecoded,
                 decodeLog, clientClosed, readAfterClose, yielded>>
  /\ UNCHANGED aggVars
  /\ UNCHANGED otherVars

\* the upstream answers with a success status: the handlers are installed
FetchOk ==
  /\ status = "fetching"
  /\ status' = "streaming"
  /\ UNCHANGED <<buffer, accumulatedContent, previousReasoning, previousAnswer,
                 reasoningPhase, frames, upstream, updates, terminalSeen,
                 lateDecoded, decodeLog, clientClosed, readAfterClose, yielded>>
  /\ UNCHANGED aggVars
  /\ UNCHANGED otherVars

\* a plausible bug: the refused call is closed like a completed one
FetchNotOkThenEnd ==
  /\ status = "fetching"
  /\ frames' = Append(frames, ErrorFrame("K2Think API error")) \o EndFrames
  /\ status' = "refused"
  /\ UNCHANGED <<buffer, accumulatedContent, previousReasoning, previousAnswer,
                 reasoningPhase, upstream, updates, terminalSeen, lateDecoded,
                 decodeLog, clientClosed, readAfterClose, yielded>>
  /\ UNCHANGED aggVars
  /\ UNCHANGED otherVars

\* if (!response.ok) { res.write(error); res.end(); return; }
FetchNotOk ==
  /\ status = "fetching"
  /\ frames' = Append(frames, ErrorFrame("K2Think API error"))
  /\ status' = "refused"
  /\ UNCHANGED <<buffer, accumulatedContent, previousReasoning, previousAnswer,
                 reasoningPhase, upstream, updates, terminalSeen, lateDecoded,
                 decodeLog, clientClosed, readAfterClose, yielded>>
  /\ UNCHANGED aggVars
  /\ UNCHANGED otherVars

\* response.body.on('data', (chunk) => { ... })
OnData ==
  /\ status = "streaming"
  /\ Len(upstream) < MaxChunks
  /\ \E chunk \in Chunks :
     \E sp \in {Split(buffer \o chunk)} :
     \E st \in {ProcessLines(sp.lines,
                   EngineState(accumulatedContent, previousReasoning,
                               previousAnswer, reasoningPhase, frames, updates,
                               terminalSeen, lateDecoded, decodeLog))} :
          /\ buffer' = CarryOver(sp)
          /\ yielded' = yielded \o sp.lines
          /\ accumulatedContent' = st.accumulatedContent
          /\ previousReasoning' = st.previousReasoning
          /\ previousAnswer' = st.previousAnswer
          /\ reasoningPhase' = st.reasoningPhase
          /\ frames' = st.frames
          /\ updates' = st.updates
          /\ terminalSeen' = st.terminalSeen
          /\ lateDecoded' = st.lateDecoded
          /\ decodeLog' = st.decodeLog
          /\ upstream' = Append(upstream, chunk)
  /\ readAfterClose' = IF clientClosed THEN readAfterClose + 1 ELSE readAfterClose
  /\ UNCHANGED <<status, clientClosed>>
  /\ UNCHANGED aggVars
  /\ UNCHANGED otherVars

\* a plausible bug: what is left in the buffer is handled as a last line
OnEndFlushBuffer ==
  /\ status = "streaming"
  /\ \E st \in {ProcessLines(<<buffer>>,
                   EngineState(accumulatedContent, previousReasoning,
                               previousAnswer, reasoningPhase, frames, updates,
                               terminalSeen, lateDecoded, decodeLog))} :
          /\ accumulatedContent' = st.accumulatedContent
          /\ previousReasoning' = st.previousReasoning
          /\ previousAnswer' = st.previousAnswer
          /\ reasoningPhase' = st.reasoningPhase
          /\ frames' = st.frames \o EndFrames
          /\ updates' = st.updates
          /\ terminalSeen' = st.terminalSeen
          /\ lateDecoded' = st.lateDecoded
          /\ decodeLog' = st.decodeLog
  /\ buffer' = <<>>
  /\ status' = "ended"
  /\ UNCHANGED <<upstream, clientClosed, readAfterClose, yielded>>
  /\ UNCHANGED aggVars
  /\ UNCHANGED otherVars

\* response.body.on('end', () => { ... })
OnEnd ==
  /\ status = "streaming"
  /\ frames' = frames \o EndFrames
  /\ status' = "ended"
  /\ UNCHANGED <<buffer, accumulatedContent, previousReasoning, previousAnswer,
                 reasoningPhase, upstream, updates, terminalSeen, lateDecoded,
                 decodeLog, clientClosed, readAfterClose, yielded>>
  /\ UNCHANGED aggVars
  /\ UNCHANGED otherVars

\* a plausible bug: the failed body is closed like a completed one
OnErrorThenEnd ==
  /\ status = "streaming"
  /\ frames' = Append(frames, ErrorFrame("Stream error")) \o EndFrames
  /\ status' = "errored"
  /\ UNCHANGED <<buffer, accumulatedContent, previousReasoning, previousAnswer,
                 reasoningPhase, upstream, updates, terminalSeen, lateDecoded,
                 decodeLog, clientClosed, readAfterClose, yielded>>
  /\ UNCHANGED aggVars
  /\ UNCHANGED otherVars

\* response.body.on('error', (error) => { ... })
OnError ==
  /\ status = "streaming"
  /\ frames' = Append(frames, ErrorFrame("Stream error"))
  /\ status' = "errored"
  /\ UNCHANGED <<buffer, accumulatedContent, previousReasoning, previousAnswer,
                 reasoningPhase, upstream, updates, terminalSeen, lateDecoded,
                 decodeLog, clientClosed, readAfterClose, yielded>>
  /\ UNCHANGED aggVars
  /\ UNCHANGED otherVars

\* a plausible bug: the rejection is reported but the response is left open
FetchRejectsNoEnd ==
  /\ status = "fetching"
  /\ frames' = Append(frames, ErrorFrame("Internal server error"))
  /\ status' = "reported"
  /\ UNCHANGED <<buffer, accumulatedContent, previousReasoning, previousAnswer,
                 reasoningPhase, upstream, updates, terminalSeen, lateDecoded,
                 decodeLog, clientClosed, readAfterClose, yielded>>
  /\ UNCHANGED aggVars
  /\ UNCHANGED otherVars

\* fetch rejects: catch (error) { res.write(error); res.end(); }
FetchRejects ==
  /\ status = "fetching"
  /\ frames' = Append(frames, ErrorFrame("Internal server error"))
  /\ status' = "failed"
  /\ UNCHANGED <<buffer, accumulatedContent, previousReasoning, previousAnswer,
                 reasoningPhase, upstream, updates, terminalSeen, lateDecoded,
                 decodeLog, clientClosed, readAfterClose, yielded>>
  /\ UNCHANGED aggVars
  /\ UNCHANGED otherVars

\* The client closes the connection while the response is open.  No listener
\* is registered for it and the upstream call is given no abort signal, so
\* nothing of the request changes: the body keeps delivering chunks to the
\* 'data' handler.  (src/src/index.js:366 destroys the Readable that is piped
\* to the response, whose later push calls are dropped; the upstream call is
\* not aborted there either.)
ClientClose ==
  /\ status \in {"fetching", "streaming"}
  /\ ~clientClosed
  /\ clientClosed' = TRUE
  /\ UNCHANGED <<status, buffer, accumulatedContent, previousReasoning,
                 previousAnswer, reasoningPhase, frames, upstream, updates,
                 terminalSeen, lateDecoded, decodeLog, readAfterClose, yielded>>
  /\ UNCHANGED aggVars
  /\ UNCHANGED otherVars

-----------------------------------------------------------------------------
(* The non-streaming request, fed the chunks the upstream body delivered *)

Response(kind, code, content) == [kind |-> kind, code |-> code, content |-> content]

\* res.json(chatResponse)
chatResponse(content) == Response("chat.completion", 200, content)

\* createErrorResponse(res, message, status)
createErrorResponse(message, code) == Response("error", code, <<message>>)

\* response.body.on('data', (chunk) => { ... }) of aggregateStream
AggOnData ==
  /\ aggStatus = "reading"
  /\ aggPos < Len(upstream)
  /\ \E sp \in {Split(aggBuffer \o upstream[aggPos + 1])} :
     \E st \in {AggLines(sp.lines, AggState(pieces, aggTerminalSeen,
                                            aggLateDecoded, aggDecodeLog))} :
        /\ aggBuffer' = CarryOver(sp)
        /\ pieces' = st.pieces
        /\ aggTerminalSeen' = st.terminalSeen
        /\ aggLateDecoded' = st.lateDecoded
        /\ aggDecodeLog' = st.decodeLog
  /\ aggPos' = aggPos + 1
  /\ UNCHANGED <<aggStatus, aggResult, aggResponses>>
  /\ UNCHANGED streamVars
  /\ UNCHANGED otherVars

\* a plausible bug: what was collected before the error is sent as a completion
AggErrorResponsePartial(ps) == chatResponse(AggregateResult(ps))

\* reject(error); the route's catch: createErrorResponse(res, ..., 500)
AggErrorResponse(ps) == createErrorResponse("Internal server error", 500)

\* response.body.on('end', () => { ... }) of aggregateStream: resolve(...), and
\* the route goes on to res.json(chatResponse)
AggOnEnd ==
  /\ aggStatus = "reading"
  /\ status = "ended"
  /\ aggPos = Len(upstream)
  /\ \E content \in {AggregateResult(pieces)} :
       /\ aggResult' = content
       /\ aggResponses' = Append(aggResponses, chatResponse(content))
  /\ aggStatus' = "resolved"
  /\ UNCHANGED <<aggPos, aggBuffer, pieces, aggTerminalSeen, aggLateDecoded,
                 aggDecodeLog>>
  /\ UNCHANGED streamVars
  /\ UNCHANGED otherVars

\* response.body.on('error', ...) of aggregateStream: reject(error), and the
\* route's catch answers
AggOnError ==
  /\ aggStatus = "reading"
  /\ status = "errored"
  /\ aggPos = Len(upstream)
  /\ aggStatus' = "rejected"
  /\ aggResponses' = Append(aggResponses, AggErrorResponse(pieces))
  /\ UNCHANGED <<aggPos, aggBuffer, pieces, aggResult, aggTerminalSeen,
                 aggLateDecoded, aggDecodeLog>>
  /\ UNCHANGED streamVars
  /\ UNCHANGED otherVars

\* fetch rejects, or if (!response.ok) throw new Error(...): the route's
\* catch answers
AggFetchNotOk ==
  /\ aggStatus = "reading"
  /\ status \in {"refused", "failed"}
  /\ aggStatus' = "failed"
  /\ aggResponses' = Append(aggResponses,
                            createErrorResponse("Internal server error", 500))
  /\ UNCHANGED <<aggPos, aggBuffer, pieces, aggResult, aggTerminalSeen,
                 aggLateDecoded, aggDecodeLog>>
  /\ UNCHANGED streamVars
  /\ UNCHANGED otherVars

Next ==
  \/ StartRequest \/ FetchOk \/ FetchNotOk \/ FetchRejects
  \/ OnData \/ OnEnd \/ OnError

Spec == Init /\ [][Next]_vars

\* the streaming request when things happen: the handler runs, the promise of
\* fetch settles, and the upstream body, once open, ends or fails
SpecFair ==
  /\ Init /\ [][Next]_vars
  /\ WF_vars(StartRequest)
  /\ WF_vars(FetchOk \/ FetchNotOk \/ FetchRejects)
  /\ WF_vars(OnEnd \/ OnError)

NextBoth == Next \/ AggOnData \/ AggOnEnd \/ AggOnError \/ AggFetchNotOk

SpecBoth == Init /\ [][NextBoth]_vars

\* the streaming request with a client that may leave
NextClose == Next \/ ClientClose

SpecClose == Init /\ [][NextClose]_vars

-----------------------------------------------------------------------------
(* Several streaming requests at once *)

\* a plausible bug: previousAnswer is one variable of the module, which
\* every request reads
OwnStateShared(reqs, r) ==
  [reqs[r] EXCEPT !.previousAnswer = reqs["a"].previousAnswer]

\* the variables a call of handleK2Stream works on are the  let  and  const
\* of that call
OwnState(reqs, r) == reqs[r]

\* a plausible bug: created is the time at which the chunk is written
ChunkStampNow(id, created) == [id |-> id, created |-> clock]

\* createStreamChunk(streamId, createdTime, ...): { id: streamId, created:
\* createdTime, ... }
ChunkStamp(id, created) == [id |-> id, created |-> created]

\* the stamps of the chunks among the frames out
StampsOf(out, id, created) ==
  [i \in 1..Cardinality({j \in DOMAIN out : out[j].type = "chunk"}) |->
     ChunkStamp(id, created)]

\* `chatcmpl-${uuidv4()}`: a value no other request gets
StreamIdOf(r) == <<"chatcmpl-", r>>

\* const streamId = ...; const createdTime = Math.floor(Date.now() / 1000);
\* res.writeHead(200, ...); res.write(role chunk); then the upstream call
ReqStart(q, id, now) ==
  [q EXCEPT !.status = "fetching", !.streamId = id, !.createdTime = now,
            !.frames = Append(@, RoleFrame),
            !.stamps = @ \o StampsOf(<<RoleFrame>>, id, now)]

ReqFetchOk(q) == [q EXCEPT !.status = "streaming"]

\* if (!response.ok) { res.write(error); res.end(); return; }
ReqFetchNotOk(q) ==
  [q EXCEPT !.status = "refused",
            !.frames = Append(@, ErrorFrame("K2Think API error"))]

ReqAfterLines(q, chunk, rest, st) ==
  Request(q.status, rest, st.accumulatedContent, st.previousReasoning,
          st.previousAnswer, st.reasoningPhase, st.frames,
          Append(q.upstream, chunk), q.streamId, q.createdTime,
          q.stamps \o StampsOf(SubSeq(st.frames, Len(q.frames) + 1, Len(st.frames)),
                               q.streamId, q.createdTime))

\* response.body.on('data', (chunk) => { ... })
ReqOnData(q, chunk) ==
  The({ The({ ReqAfterLines(q, chunk, CarryOver(sp), st) :
              st \in {ProcessLines(sp.lines,
                        EngineState(q.accumulatedContent, q.previousReasoning,
                                    q.previousAnswer, q.reasoningPhase,
                                    q.frames, <<>>, FALSE, 0, <<>>))} }) :
        sp \in {Split(q.buffer \o chunk)} })

\* response.body.on('end', () => { ... })
ReqOnEnd(q) ==
  [q EXCEPT !.status = "ended", !.frames = @ \o EndFrames,
            !.stamps = @ \o StampsOf(EndFrames, q.streamId, q.createdTime)]

\* response.body.on('error', (error) => { ... })
ReqOnError(q) ==
  [q EXCEPT !.status = "errored", !.frames = Append(@, ErrorFrame("Stream error"))]

StartRequestOf(r) ==
  /\ requests[r].status = "new"
  /\ requests' = [requests EXCEPT
                    ![r] = ReqStart(OwnState(requests, r), StreamIdOf(r), clock)]
  /\ UNCHANGED <<streamVars, aggVars, flows, readable, decInput, decResult, moreVars>>

FetchOkOf(r) ==
  /\ requests[r].status = "fetching"
  /\ requests' = [requests EXCEPT ![r] = ReqFetchOk(OwnState(requests, r))]
  /\ UNCHANGED <<streamVars, aggVars, flows, readable, decInput, decResult, moreVars>>

FetchNotOkOf(r) ==
  /\ requests[r].status = "fetching"
  /\ requests' = [requests EXCEPT ![r] = ReqFetchNotOk(OwnState(requests, r))]
  /\ UNCHANGED <<streamVars, aggVars, flows, readable, decInput, decResult, moreVars>>

OnDataOf(r) ==
  /\ requests[r].status = "streaming"
  /\ Len(requests[r].upstream) < MaxChunks
  /\ \E chunk \in FewChunks :
     \E q \in {ReqOnData(OwnState(requests, r), chunk)} :
        requests' = [requests EXCEPT ![r] = q]
  /\ UNCHANGED <<streamVars, aggVars, flows, readable, decInput, decResult, moreVars>>

OnEndOf(r) ==
  /\ requests[r].status = "streaming"
  /\ requests' = [requests EXCEPT ![r] = ReqOnEnd(OwnState(requests, r))]
  /\ UNCHANGED <<streamVars, aggVars, flows, readable, decInput, decResult, moreVars>>

OnErrorOf(r) ==
  /\ requests[r].status = "streaming"
  /\ requests' = [requests EXCEPT ![r] = ReqOnError(OwnState(requests, r))]
  /\ UNCHANGED <<streamVars, aggVars, flows, readable, decInput, decResult, moreVars>>

NextTwo ==
  \E r \in Requests :
    \/ StartRequestOf(r) \/ FetchOkOf(r) \/ FetchNotOkOf(r)
    \/ OnDataOf(r) \/ OnEndOf(r) \/ OnErrorOf(r)

SpecTwo == Init /\ [][NextTwo]_vars

-----------------------------------------------------------------------------
(* Decoding the bytes of the chunks *)

\* Bytes are tokens: "a" and "LF" are one-byte characters, "C3" "A9" are the
\* two bytes of one character.  Decoded text is a sequence of "a", "LF",
\* "C3A9" (that character) and "FFFD" (the replacement character).
IsLead(b) == b = "C3"
IsContinuation(b) == b = "A9"

\* the decoder's loop over the bytes: held is the lead byte of a character
\* whose continuation has not arrived
RECURSIVE DecodeFrom(_, _, _)
DecodeFrom(bytes, held, out) ==
  IF bytes = <<>> THEN [text |-> out, pending |-> held]
  ELSE LET b == Head(bytes)
       IN IF held # <<>>
          THEN IF IsContinuation(b)
               THEN DecodeFrom(Tail(bytes), <<>>, Append(out, "C3A9"))
               ELSE DecodeFrom(bytes, <<>>, Append(out, "FFFD"))
          ELSE IF IsLead(b) THEN DecodeFrom(Tail(bytes), <<b>>, out)
          ELSE IF IsContinuation(b)
               THEN DecodeFrom(Tail(bytes), <<>>, Append(out, "FFFD"))
          ELSE DecodeFrom(Tail(bytes), <<>>, Append(out, b))

\* what an incomplete character becomes when no more bytes are to come
Flush(held) == IF held = <<>> THEN <<>> ELSE <<"FFFD">>

\* decoder.decode(chunk, { stream: true }): the incomplete character at the
\* end of the chunk is held back for the next call
DecodeStream(held, chunk) == DecodeFrom(chunk, held, <<>>)

\* chunk.toString(): the chunk is decoded by itself
toString(chunk) ==
  LET d == DecodeFrom(chunk, <<>>, <<>>)
  IN [text |-> d.text \o Flush(d.pending), pending |-> <<>>]

\* the data handlers and reading loops of the repository
StatefulPaths ==
  {"app.js handleK2Stream", "app.js aggregateStream",
   "index.js:627 createK2Stream", "index.js:740 aggregateStream"}

ToStringPaths == {"index.js:130 createK2Stream", "index.js:239 aggregateStream"}

Paths == StatefulPaths \cup ToStringPaths

ByteValues == {"a", "LF", "C3", "A9"}

\* chunks of one or two bytes, cut anywhere
ByteChunks ==
  {<<b>> : b \in ByteValues} \cup {<<b, c>> : b \in ByteValues, c \in ByteValues}

InitBytes ==
  /\ InitStream
  /\ InitAgg
  /\ InitOthers
  /\ decInput = NoObj
  /\ decResult = NotDecoded
  /\ bytesPath \in Paths
  /\ InitBytesRest
  /\ authEnv = [set |-> FALSE, text |-> <<>>]
  /\ authHeader = [present |-> FALSE, text |-> <<>>]
  /\ InitAuthRest

\* buffer += decoder.decode(chunk, { stream: true })  or
\* buffer += chunk.toString()
DecodeChunk ==
  /\ Len(bytesIn) < MaxChunks
  /\ \E chunk \in ByteChunks :
     \E d \in {IF bytesPath \in StatefulPaths
                THEN DecodeStream(bytesPending, chunk)
                ELSE toString(chunk)} :
        /\ bytesIn' = Append(bytesIn, chunk)
        /\ bytesText' = bytesText \o d.text
        /\ bytesPending' = d.pending
  /\ UNCHANGED <<streamVars, aggVars, requests, flows, readable, decInput,
                 decResult, clock, bytesPath, authVars>>

SpecBytes == InitBytes /\ [][DecodeChunk]_vars

-----------------------------------------------------------------------------
(* Authentication of the chat-completion route *)

\* Key strings and header values are sequences of tokens: the letters "k"
\* and "m", the blank " ", the comma ",", and "Bearer " for these seven
\* characters.  An environment variable or header that is not there has
\* set / present FALSE.

MaxText == 3

TextsOver(alphabet) ==
  UNION {[1..n -> alphabet] : n \in 0..MaxText}

EnvValues ==
  {[set |-> FALSE, text |-> <<>>]}
    \cup {[set |-> TRUE, text |-> t] : t \in TextsOver({"k", "m", " ", ","})}

HeaderValues ==
  {[present |-> FALSE, text |-> <<>>]}
    \cup {[present |-> TRUE, text |-> t] : t \in TextsOver({"Bearer ", "k", " "})}

\* keysString.split(',')
RECURSIVE SplitComma(_, _, _)
SplitComma(text, done, cur) ==
  IF text = <<>> THEN Append(done, cur)
  ELSE IF Head(text) = "," THEN SplitComma(Tail(text), Append(done, cur), <<>>)
  ELSE SplitComma(Tail(text), done, Append(cur, Head(text)))

\* new Set(parseApiKeys(keysString)):
\* split(',').map(key => key.trim()).filter(key => key.length > 0)
parseApiKeys(keysString) ==
  IF keysString = <<>> THEN {}
  ELSE LET parts == SplitComma(keysString, <<>>, <<>>)
       IN {Trim(parts[i]) : i \in DOMAIN parts} \ {<<>>}

\* if (authHeader?.startsWith("Bearer ")) apiKey = authHeader.substring(7)
StripBearer(text) ==
  IF text # <<>> /\ Head(text) = "Bearer " THEN Tail(text) ELSE text

\* a plausible bug: any key is taken
authenticateApiKeyAnyKey(env, header) ==
  IF env.set /\ env.text # <<>>
  THEN LET validKeys == parseApiKeys(env.text)
           noHeader == ~header.present \/ header.text = <<>>
           noKey == ~header.present \/ StripBearer(header.text) = <<>>
       IN IF noHeader /\ validKeys # {} THEN "API key required"
          ELSE IF validKeys # {} /\ noKey THEN "Invalid API key"
          ELSE "next"
  ELSE "next"

\* authenticateApiKey(req, res, next): "next", or the message of the 401
authenticateApiKey(env, header) ==
  IF env.set /\ env.text # <<>>
  THEN LET validKeys == parseApiKeys(env.text)
           noHeader == ~header.present \/ header.text = <<>>
           noKey == ~header.present \/ StripBearer(header.text) = <<>>
       IN IF noHeader /\ validKeys # {} THEN "API key required"
          ELSE IF validKeys # {}
                  /\ (noKey \/ StripBearer(header.text) \notin validKeys)
               THEN "Invalid API key"
          ELSE "next"
  ELSE "next"

InitAuth ==
  /\ InitStream
  /\ InitAgg
  /\ InitOthers
  /\ decInput = NoObj
  /\ decResult = NotDecoded
  /\ bytesPath = "app.js handleK2Stream"
  /\ InitBytesRest
  /\ authEnv \in EnvValues
  /\ authHeader \in HeaderValues
  /\ InitAuthRest

\* the middleware runs for a request to /v1/chat/completions
Authenticate ==
  /\ authResult = "pending"
  /\ authResult' = authenticateApiKey(authEnv, authHeader)
  /\ UNCHANGED <<streamVars, aggVars, requests, flows, readable, decInput,
                 decResult, clock, bytesVars, authEnv, authHeader, authCalls>>

\* next() was called: the route handler runs and calls the upstream
CallUpstream ==
  /\ authResult = "next"
  /\ authCalls = 0
  /\ authCalls' = 1
  /\ UNCHANGED <<streamVars, aggVars, requests, flows, readable, decInput,
                 decResult, clock, bytesVars, authEnv, authHeader, authResult>>

SpecAuth == InitAuth /\ [][Authenticate \/ CallUpstream]_vars

-----------------------------------------------------------------------------
(* One streaming request while time passes *)

MaxClock == 1

\* a second goes by
Tick ==
  /\ clock < MaxClock
  /\ clock' = clock + 1
  /\ UNCHANGED <<streamVars, aggVars, requests, flows, readable, decInput,
                 decResult, bytesVars, authVars>>

NextStamp ==
  \/ Tick
  \/ StartRequestOf("a") \/ FetchOkOf("a") \/ FetchNotOkOf("a")
  \/ OnDataOf("a") \/ OnEndOf("a") \/ OnErrorOf("a")

SpecStamp == Init /\ [][NextStamp]_vars

-----------------------------------------------------------------------------
(* createK2Stream as a Readable whose read() does the work                 *)
(* (src/src/index.js:627-737).  previousReasoning, previousAnswer,         *)
(* reasoningPhase and accumulatedContent are variables of createK2Stream,  *)
(* one set for the stream; buffer, response and reader are variables of    *)
(* read(), one set for each invocation.  Every invocation pushes before it *)
(* first waits, which ends the stream's wait for data: the stream calls    *)
(* read() again whenever its consumer wants more, while earlier            *)
(* invocations are still reading their bodies.                             *)

\* read() invocations that may be alive at once
MaxFlows == 2

\* this.push(...) of the frames out, in order.  A destroyed stream drops
\* them; a push after push(null) is an error, which destroys the stream.
Push(fr, rd, out) ==
  IF out = <<>> \/ rd.destroyed THEN [frames |-> fr, readable |-> rd]
  ELSE IF rd.ended
  THEN [frames |-> fr, readable |-> [rd EXCEPT !.destroyed = TRUE]]
  ELSE [frames |-> fr \o out, readable |-> rd]

\* the stream calls read(): the role chunk is pushed and the upstream call made
Read ==
  /\ ~readable.ended /\ ~readable.destroyed
  /\ Len(flows) < MaxFlows
  /\ flows' = Append(flows, Flow("fetching", <<>>))
  /\ frames' = Append(frames, RoleFrame)
  /\ UNCHANGED <<status, buffer, accumulatedContent, previousReasoning,
                 previousAnswer, reasoningPhase, upstream, updates,
                 terminalSeen, lateDecoded, decodeLog, clientClosed,
                 readAfterClose, yielded>>
  /\ UNCHANGED <<aggVars, requests, readable, decInput, decResult, moreVars>>

\* the upstream call of invocation i returns a success status
FlowFetchOk(i) ==
  /\ flows[i].pc = "fetching"
  /\ flows' = [flows EXCEPT ![i].pc = "reading"]
  /\ UNCHANGED <<streamVars, aggVars, requests, readable, decInput, decResult, moreVars>>

\* fetch rejects, or if (!response.ok): this.destroy(error); return;
FlowFetchFails(i) ==
  /\ flows[i].pc = "fetching"
  /\ flows' = [flows EXCEPT ![i].pc = "returned"]
  /\ readable' = [readable EXCEPT !.destroyed = TRUE]
  /\ UNCHANGED <<streamVars, aggVars, requests, decInput, decResult, moreVars>>

\* one turn of  while (true)  of invocation i: reader.read() gave a chunk
FlowData(i) ==
  /\ flows[i].pc = "reading"
  /\ Len(upstream) < MaxChunks
  /\ \E chunk \in FlowChunks :
     \E sp \in {Split(flows[i].buffer \o chunk)} :
     \E st \in {ProcessLines(sp.lines,
                   EngineState(accumulatedContent, previousReasoning,
                               previousAnswer, reasoningPhase, frames, updates,
                               terminalSeen, lateDecoded, decodeLog))} :
     \E p \in {Push(frames, readable,
                    SubSeq(st.frames, Len(frames) + 1, Len(st.frames)))} :
          /\ flows' = [flows EXCEPT ![i].buffer = CarryOver(sp)]
          /\ accumulatedContent' = st.accumulatedContent
          /\ previousReasoning' = st.previousReasoning
          /\ previousAnswer' = st.previousAnswer
          /\ reasoningPhase' = st.reasoningPhase
          /\ updates' = st.updates
          /\ terminalSeen' = st.terminalSeen
          /\ lateDecoded' = st.lateDecoded
          /\ decodeLog' = st.decodeLog
          /\ frames' = p.frames
          /\ readable' = p.readable
          /\ upstream' = Append(upstream, chunk)
  /\ UNCHANGED <<status, buffer, clientClosed, readAfterClose, yielded>>
  /\ UNCHANGED <<aggVars, requests, decInput, decResult, moreVars>>

\* reader.read() gave done: the closing chunk, [DONE] and null are pushed
FlowEnd(i) ==
  /\ flows[i].pc = "reading"
  /\ flows' = [flows EXCEPT ![i].pc = "returned"]
  /\ \E p \in {Push(frames, readable, EndFrames)} :
       /\ frames' = p.frames
       /\ readable' = IF p.readable.destroyed THEN p.readable
                      ELSE [p.readable EXCEPT !.ended = TRUE]
  /\ UNCHANGED <<status, buffer, accumulatedContent, previousReasoning,
                 previousAnswer, reasoningPhase, upstream, updates,
                 terminalSeen, lateDecoded, decodeLog, clientClosed,
                 readAfterClose, yielded>>
  /\ UNCHANGED <<aggVars, requests, decInput, decResult, moreVars>>

\* reader.read() rejects: the exception leaves read() through  finally, as
\* the rejection of the promise read() returned.  The stream machinery of
\* the platform either destroys the stream with it or ignores it, by version.
FlowError(i) ==
  /\ flows[i].pc = "reading"
  /\ flows' = [flows EXCEPT ![i].pc = "returned"]
  /\ \E d \in {readable.destroyed, TRUE} :
       readable' = [readable EXCEPT !.destroyed = d]
  /\ UNCHANGED <<streamVars, aggVars, requests, decInput, decResult, moreVars>>

NextReadable ==
  \/ Read
  \/ \E i \in DOMAIN flows :
       FlowFetchOk(i) \/ FlowFetchFails(i) \/ FlowData(i) \/ FlowEnd(i) \/ FlowError(i)

SpecReadable == Init /\ [][NextReadable]_vars

-----------------------------------------------------------------------------
(* The payload decoder alone *)

InitDecoder ==
  /\ InitStream
  /\ InitAgg
  /\ InitOthers
  /\ decInput \in JsonValues
  /\ decResult = NotDecoded
  /\ InitMore

\* const [piece, isDone] = extractContentFromJson(obj);
CallDecoder ==
  /\ ~decResult.called
  /\ decResult' = [called |-> TRUE, result |-> extractContentFromJson(decInput)]
  /\ UNCHANGED <<streamVars, aggVars, requests, flows, readable, decInput, moreVars>>

SpecDecoder == InitDecoder /\ [][CallDecoder]_vars

-----------------------------------------------------------------------------
(* Reading the histories *)

\* the texts of the frames whose delta carries key, concatenated in order
RECURSIVE ConcatFrom(_, _, _)
ConcatFrom(fr, key, i) ==
  IF i > Len(fr) THEN <<>>
  ELSE (IF fr[i].key = key THEN fr[i].text ELSE <<>>) \o ConcatFrom(fr, key, i + 1)

ReasoningEmitted == ConcatFrom(frames, "reasoning_content", 1)
AnswerEmitted    == ConcatFrom(frames, "content", 1)

IsDelta(f) == f.type = "chunk" /\ f.key \in {"reasoning_content", "content"}

CountFrames(f) == Cardinality({i \in DOMAIN frames : frames[i] = f})

\* each section of every snapshot extends the same section of the one before
AppendOnly ==
  \A i \in 2..Len(updates) :
    /\ IsPrefix(updates[i - 1].reasoning, updates[i].reasoning)
    /\ IsPrefix(updates[i - 1].answer, updates[i].answer)

\* the reasoning section of the last snapshot that arrived in the Reasoning phase
LastReasoningInPhase ==
  LET in == {i \in DOMAIN updates : updates[i].prePhase}
  IN IF in = {} THEN <<>>
     ELSE updates[CHOOSE i \in in : \A j \in in : j <= i].reasoning

\* the tags of a complete reasoning block occur in order
HasCompleteBlock(c) ==
  \E i \in DOMAIN c : /\ c[i] = "DO"
    /\ \E j \in (i + 1)..Len(c) : /\ c[j] = "SO"
      /\ \E k \in (j + 1)..Len(c) : /\ c[k] = "SC"
        /\ \E l \in (k + 1)..Len(c) : c[l] = "DC"

HasCompletePair(c) ==
  \E i \in DOMAIN c : c[i] = "AO" /\ \E j \in (i + 1)..Len(c) : c[j] = "AC"

\* opening tag, closed summary, then text; no closing tag, no answer tag
IsOpenBlock(c) ==
  /\ \E i \in DOMAIN c : /\ c[i] = "DO"
       /\ \E j \in (i + 1)..Len(c) : /\ c[j] = "SO"
         /\ \E k \in (j + 1)..(Len(c) - 1) : c[k] = "SC"
  /\ \A i \in DOMAIN c : c[i] \notin {"DC", "AO", "AC"}

\* what lies in cur beyond the length of prev
SuffixBeyond(prev, cur) ==
  [i \in 1..(IF Len(cur) > Len(prev) THEN Len(cur) - Len(prev) ELSE 0) |->
     cur[Len(prev) + i]]

\* the text after the first </summary>
AfterSummary(c) == Trim(Substring(c, FirstAt(c, "SC", 1)))

-----------------------------------------------------------------------------
(* Claims *)

\* C1 as stated: whenever every section of the snapshots only grew by
\* appending, the ReasoningDelta texts concatenate to the reasoning section of
\* the last snapshot and the AnswerDelta texts to its answer section.
C1_DeltasRebuildLastSnapshot ==
  (updates # <<>> /\ AppendOnly) =>
    /\ ReasoningEmitted = updates[Len(updates)].reasoning
    /\ AnswerEmitted = updates[Len(updates)].answer

\* C1 amended: under append-only growth the AnswerDelta texts concatenate to
\* the answer section of the last snapshot, and the ReasoningDelta texts to the
\* reasoning section of the last snapshot that arrived while the phase was
\* still Reasoning (the snapshot that brings the first answer included).
C1_DeltasRebuildSections ==
  (updates # <<>> /\ AppendOnly) =>
    /\ ReasoningEmitted = LastReasoningInPhase
    /\ AnswerEmitted = updates[Len(updates)].answer

\* both sections grew over two snapshots and both were emitted in two deltas
C1_Witness ==
  /\ Len(updates) >= 2 /\ AppendOnly
  /\ Len(ReasoningEmitted) >= 2 /\ Len(AnswerEmitted) >= 2
  /\ Cardinality({i \in DOMAIN frames : IsDelta(frames[i])}) >= 4

\* C2: the phase leaves Reasoning at most once and never returns, and no
\* ReasoningDelta frame follows an AnswerDelta frame.
C2_OnePhaseTransition ==
  /\ Cardinality({i \in DOMAIN updates :
                    updates[i].prePhase # updates[i].postPhase}) <= 1
  /\ \A i \in DOMAIN updates :
       /\ ~updates[i].prePhase => ~updates[i].postPhase
       /\ i > 1 => updates[i].prePhase = updates[i - 1].postPhase
  /\ reasoningPhase = (IF updates = <<>> THEN TRUE
                       ELSE updates[Len(updates)].postPhase)
  /\ \A i, j \in DOMAIN frames :
       (i < j /\ frames[i].key = "content") => frames[j].key # "reasoning_content"

\* the answer phase was entered, and a snapshot with more reasoning came after
C2_Witness ==
  /\ ~reasoningPhase
  /\ \E i \in DOMAIN frames : frames[i].key = "content"
  /\ \E i \in DOMAIN updates :
       /\ ~updates[i].prePhase
       /\ updates[i].reasoning # <<>>
       /\ updates[i].reasoning # previousReasoning

\* C3 as stated: once a done === true line has been decoded, no later line of
\* the request is decoded, in streaming mode or in aggregation mode.
C3_NothingDecodedAfterTerminal ==
  /\ lateDecoded = 0
  /\ aggLateDecoded = 0

\* C4: when the upstream body has ended, the response holds exactly one Stop
\* frame and exactly one Done frame, and they are its last two frames, in
\* that order.
C4_OneStopThenDone ==
  status = "ended" =>
    /\ Len(frames) >= 2
    /\ frames[Len(frames) - 1] = StopFrame
    /\ frames[Len(frames)] = DoneFrame
    /\ CountFrames(StopFrame) = 1
    /\ CountFrames(DoneFrame) = 1
    /\ \A i \in DOMAIN frames : frames[i].finish = "stop" => frames[i] = StopFrame

\* the body ended after a terminal line and after deltas were written
C4_Witness ==
  /\ status = "ended"
  /\ terminalSeen
  /\ \E i \in DOMAIN frames : IsDelta(frames[i])

\* C5 as stated: the AnswerDelta texts of the streaming path concatenate to
\* the string the aggregation path returns for the same upstream chunks.
C5_StreamingEqualsAggregation ==
  aggStatus = "resolved" => AnswerEmitted = aggResult

\* C6: in the update that brings the first answer while the reasoning section
\* extends what was emitted, the engine writes the missing reasoning suffix
\* and then the whole answer, and nothing else.
C6_FlushThenFirstAnswer ==
  \A i \in DOMAIN updates :
    LET u == updates[i] IN
    (/\ u.prePhase /\ u.answer # <<>>
     /\ u.reasoning # u.preReasoning
     /\ IsPrefix(u.preReasoning, u.reasoning))
    => u.emitted = <<ReasoningFrame(Substring(u.reasoning, Len(u.preReasoning))),
                     AnswerFrame(u.answer)>>

\* "s" had been emitted; the snapshot with reasoning "st" and answer "h" came
C6_Witness ==
  \E i \in DOMAIN updates :
    /\ updates[i].prePhase
    /\ updates[i].preReasoning = <<"s">>
    /\ updates[i].reasoning = <<"s", "t">>
    /\ updates[i].answer = <<"h">>

\* C7 as stated: a snapshot with an open reasoning block (closed summary, text,
\* no closing tag, no answer) yields one ReasoningDelta with the text after the
\* summary.
C7_OpenBlockEmitsReasoning ==
  \A i \in DOMAIN updates :
    IsOpenBlock(updates[i].snapshot) =>
      updates[i].emitted = <<ReasoningFrame(AfterSummary(updates[i].snapshot))>>

\* C7 amended: such a snapshot yields no frame at all; its reasoning section
\* is empty until the closing tag of the block has arrived.
C7_OpenBlockEmitsNothing ==
  \A i \in DOMAIN updates :
    IsOpenBlock(updates[i].snapshot) =>
      /\ updates[i].reasoning = <<>>
      /\ updates[i].emitted = <<>>

C7_Witness ==
  \E i \in DOMAIN updates :
    /\ IsOpenBlock(updates[i].snapshot)
    /\ AfterSummary(updates[i].snapshot) = <<"s">>

\* C8: the reasoning section is non-empty only for a snapshot holding a
\* complete reasoning block, the answer section only for one holding a
\* complete answer pair; every other snapshot gives the empty section.
C8_SectionsNeedCompleteTags ==
  \A i \in DOMAIN updates :
    /\ updates[i].reasoning # <<>> => HasCompleteBlock(updates[i].snapshot)
    /\ updates[i].answer # <<>> => HasCompletePair(updates[i].snapshot)

\* a snapshot with a complete block and an unclosed answer, and a malformed one
C8_Witness ==
  /\ \E i \in DOMAIN updates :
       /\ updates[i].reasoning # <<>>
       /\ \E k \in DOMAIN updates[i].snapshot : updates[i].snapshot[k] = "AO"
       /\ ~HasCompletePair(updates[i].snapshot)
  /\ \E i \in DOMAIN updates :
       /\ \E k \in DOMAIN updates[i].snapshot : updates[i].snapshot[k] = "DC"
       /\ ~HasCompleteBlock(updates[i].snapshot)

\* C9: every ReasoningDelta and AnswerDelta frame carries text that is not
\* empty after trimming, and an update whose delta for a section (the suffix of
\* the section beyond the length of the tracked value) is blank writes no
\* frame for that section.
C9_NoBlankDelta ==
  /\ \A i \in DOMAIN frames : IsDelta(frames[i]) => Trim(frames[i].text) # <<>>
  /\ \A i \in DOMAIN updates :
       LET u == updates[i] IN
       /\ Trim(SuffixBeyond(u.preReasoning, u.reasoning)) = <<>> =>
            \A k \in DOMAIN u.emitted : u.emitted[k].key # "reasoning_content"
       /\ Trim(SuffixBeyond(u.preAnswer, u.answer)) = <<>> =>
            \A k \in DOMAIN u.emitted : u.emitted[k].key # "content"

\* an update in the Answering phase had an answer and wrote nothing
C9_Witness ==
  \E i \in DOMAIN updates :
    /\ ~updates[i].prePhase
    /\ updates[i].answer # <<>>
    /\ updates[i].emitted = <<>>

\* C10: over every snapshot update, shrinking or edited text included, the
\* lengths of previousReasoning and previousAnswer never decrease.
C10_PreviousNeverShrinks ==
  /\ \A i \in DOMAIN updates :
       /\ Len(updates[i].postReasoning) >= Len(updates[i].preReasoning)
       /\ Len(updates[i].postAnswer) >= Len(updates[i].preAnswer)
       /\ i > 1 => /\ updates[i].preReasoning = updates[i - 1].postReasoning
                   /\ updates[i].preAnswer = updates[i - 1].postAnswer
  /\ updates # <<>> =>
       /\ previousReasoning = updates[Len(updates)].postReasoning
       /\ previousAnswer = updates[Len(updates)].postAnswer

\* a snapshot whose reasoning is shorter than the tracked value arrived in the
\* Reasoning phase
C10_Witness ==
  \E i \in DOMAIN updates :
    /\ updates[i].prePhase
    /\ updates[i].reasoning # <<>>
    /\ Len(updates[i].reasoning) < Len(updates[i].preReasoning)

\* the frames of one update that carry key
FramesWith(u, key) == {k \in DOMAIN u.emitted : u.emitted[k].key = key}

\* C11: when the section of a snapshot is non-empty but not longer than the
\* tracked previous value of that section, the computed delta is empty, no
\* frame is written for the section, and the tracked value stays as it was.
C11_NoGrowthNoDelta ==
  \A i \in DOMAIN updates :
    LET u == updates[i] IN
    /\ (u.reasoning # <<>> /\ Len(u.reasoning) <= Len(u.preReasoning)) =>
         /\ calculateDeltaContent(u.preReasoning, u.reasoning) = <<>>
         /\ FramesWith(u, "reasoning_content") = {}
         /\ u.postReasoning = u.preReasoning
    /\ (u.answer # <<>> /\ Len(u.answer) <= Len(u.preAnswer)) =>
         /\ calculateDeltaContent(u.preAnswer, u.answer) = <<>>
         /\ FramesWith(u, "content") = {}
         /\ u.postAnswer = u.preAnswer

\* an answer was replaced by a different one that is not longer
C11_Witness ==
  \E i \in DOMAIN updates :
    /\ updates[i].answer # <<>>
    /\ updates[i].answer # updates[i].preAnswer
    /\ Len(updates[i].answer) <= Len(updates[i].preAnswer)

\* C12 as stated: once the client has closed the connection, no further chunk
\* of the upstream body is read or processed for that request.
C12_NoReadAfterDisconnect == readAfterClose = 0

\* C13 as stated: the frames of one streaming request come from one processing
\* flow, the role announcement once and first; no second invocation of the
\* processing routine works on the same translation state.
C13_SingleFlowInOrder ==
  /\ Len(flows) <= 1
  /\ CountFrames(RoleFrame) <= 1
  /\ \A i \in DOMAIN frames : frames[i] = RoleFrame => i = 1

\* a request handled alone: the steps from NewRequest that its status and
\* the chunks it has read determine
RECURSIVE ReplayFrom(_, _, _)
ReplayFrom(q, chunks, i) ==
  IF i > Len(chunks) THEN q
  ELSE ReplayFrom(ReqOnData(q, chunks[i]), chunks, i + 1)

ProcessedAlone(st, chunks, id, created) ==
  IF st = "new" THEN NewRequest
  ELSE IF st = "fetching" THEN ReqStart(NewRequest, id, created)
  ELSE IF st = "refused" THEN ReqFetchNotOk(ReqStart(NewRequest, id, created))
  ELSE LET streamed == ReplayFrom(ReqFetchOk(ReqStart(NewRequest, id, created)),
                                  chunks, 1)
       IN IF st = "streaming" THEN streamed
          ELSE IF st = "ended" THEN ReqOnEnd(streamed)
          ELSE ReqOnError(streamed)

\* C14: with the chunk events of several requests interleaved in any order,
\* the frames written to each response, and the translation state and
\* carry-over buffer of each request, are those of that request handled alone.
C14_RequestsIsolated ==
  \A r \in Requests :
    requests[r] = ProcessedAlone(requests[r].status, requests[r].upstream,
                                 requests[r].streamId, requests[r].createdTime)

\* both requests are in mid-stream at once, each past its first answer, with
\* different answers tracked
C14_Witness ==
  /\ \A r \in Requests :
       /\ requests[r].status = "streaming"
       /\ Len(requests[r].upstream) = MaxChunks
       /\ requests[r].previousAnswer # <<>>
  /\ requests["a"].previousAnswer # requests["b"].previousAnswer

\* C15: when the upstream answers with a non-success status, nothing of its
\* body is read or decoded, and the response holds the role announcement and
\* one error frame and nothing else: no delta, no Stop, no Done.
C15_RefusedNoDecoding ==
  status = "refused" =>
    /\ frames = <<RoleFrame, ErrorFrame("K2Think API error")>>
    /\ upstream = <<>>
    /\ decodeLog = <<>>
    /\ updates = <<>>

\* the upstream refused, and the response was closed with the error frame
C15_Witness ==
  /\ status = "refused"
  /\ Len(frames) = 2
  /\ frames[2].type = "error"

\* C16: when the upstream body fails after it has started, the error frame is
\* the last frame of the response, and the response holds no Stop frame and no
\* Done frame.
C16_ErrorEndsResponse ==
  status = "errored" =>
    /\ frames[Len(frames)] = ErrorFrame("Stream error")
    /\ CountFrames(ErrorFrame("Stream error")) = 1
    /\ \A i \in DOMAIN frames :
         /\ frames[i].finish # "stop"
         /\ frames[i].type # "done"

\* the body failed after two chunks had been translated into deltas
C16_Witness ==
  /\ status = "errored"
  /\ Len(upstream) = MaxChunks
  /\ Cardinality({i \in DOMAIN frames : IsDelta(frames[i])}) >= 2

\* C17: the non-streaming request sends at most one response, none before the
\* upstream exchange is over; after a non-success status or a failed body it
\* is the error response and never a completion, after a completed body it is
\* one completion carrying the aggregated answer.
C17_OneResponseNoPartial ==
  /\ Len(aggResponses) <= 1
  /\ aggStatus = "reading" => aggResponses = <<>>
  /\ aggStatus \in {"rejected", "failed"} =>
       aggResponses = <<createErrorResponse("Internal server error", 500)>>
  /\ aggStatus = "resolved" =>
       /\ status = "ended"
       /\ aggResponses = <<chatResponse(aggResult)>>
  /\ status \in {"errored", "refused"} =>
       \A i \in DOMAIN aggResponses : aggResponses[i].kind # "chat.completion"

\* the body failed after an answer had been collected
C17_Witness ==
  /\ aggStatus = "rejected"
  /\ AnswerOf(Join(pieces)) # <<>>
  /\ Len(aggResponses) = 1

\* the result of the lowest-numbered rule that matches o; a first element of
\* choices has delta.content dcontent, nothing when it is null
ByPriority(o) ==
  IF o.usage THEN Decoded(<<>>, FALSE, TRUE, "")
  ELSE IF o.done THEN Decoded(<<>>, TRUE, FALSE, "")
  ELSE IF o.choices = "delta" THEN Decoded(o.dcontent, FALSE, FALSE, o.drole)
  ELSE IF o.choices = "null" THEN Decoded(<<>>, FALSE, FALSE, "")
  ELSE IF o.hasContent THEN Decoded(o.content, FALSE, FALSE, "")
  ELSE Decoded(<<>>, FALSE, FALSE, "")

\* C18 as stated: for every object the decoder returns the result of the
\* lowest-numbered rule that matches it: usage, done, a non-empty choices
\* array, a string content, nothing.
C18_FirstMatchWins ==
  (decResult.called /\ decInput.kind = "object") =>
    decResult.result = ByPriority(decInput)

\* C18 amended: the same for every object that the usage rule or the done
\* rule matches or whose choices array does not begin with null; for an
\* object that reaches the choices rule with null as the first element the
\* decoder returns nothing and throws.
C18_FirstMatchWinsUnlessNull ==
  (decResult.called /\ decInput.kind = "object") =>
    IF ~decInput.usage /\ ~decInput.done /\ decInput.choices = "null"
    THEN decResult.result.threw
    ELSE decResult.result = ByPriority(decInput)

\* an object that all four rules match was decoded
C18_Witness ==
  /\ decResult.called
  /\ decInput.kind = "object"
  /\ decInput.usage /\ decInput.done
  /\ decInput.choices = "delta" /\ decInput.dcontent # <<>>
  /\ decInput.hasContent /\ decInput.content # <<>>

\* the non-empty content pieces of a decode log, in order
RECURSIVE PiecesOf(_)
PiecesOf(log) ==
  IF log = <<>> THEN <<>>
  ELSE (IF Head(log).piece # <<>> /\ ~Head(log).isDone
        THEN <<Head(log).piece>> ELSE <<>>) \o PiecesOf(Tail(log))

\* C19: a payload that is not valid JSON ends nothing and raises nothing: its
\* text is the content piece of its line, which is the next snapshot in
\* streaming mode and the next piece pushed in aggregation mode.
C19_RawPayloadIsContent ==
  /\ \A i \in DOMAIN decodeLog :
       ~Parses(decodeLog[i].payload) =>
         /\ decodeLog[i].raw /\ ~decodeLog[i].isDone
         /\ decodeLog[i].piece = AsContent(decodeLog[i].payload)
  /\ \A i \in DOMAIN aggDecodeLog :
       ~Parses(aggDecodeLog[i].payload) =>
         /\ aggDecodeLog[i].raw /\ ~aggDecodeLog[i].isDone
         /\ aggDecodeLog[i].piece = AsContent(aggDecodeLog[i].payload)
  /\ [i \in DOMAIN updates |-> updates[i].snapshot] = PiecesOf(decodeLog)
  /\ pieces = PiecesOf(aggDecodeLog)

\* "{not json" was taken as a snapshot and as a piece, and a later line was
\* translated into an answer delta
C19_Witness ==
  /\ Len(updates) = 2
  /\ updates[1].snapshot = <<"{not json">>
  /\ updates[2].emitted # <<>>
  /\ Len(pieces) = 2
  /\ pieces[1] = <<"{not json">>

\* a line that is dropped before the decoder: no data: prefix, or a payload
\* that is empty or one of the four sentinels once trimmed
IsDropped(line) ==
  \/ ~StartsWithData(line)
  \/ DataStr(line) = <<>>
  \/ /\ Len(DataStr(line)) = 1
     /\ DataStr(line)[1].t = "txt"
     /\ DataStr(line)[1].s \in {"-1", "[DONE]", "DONE", "done"}

\* C20: no dropped line reaches the decoder, and a chunk whose complete lines
\* are all dropped writes no frame and leaves previousReasoning,
\* previousAnswer and the phase as they were.
C20_SentinelsNeverDecoded ==
  [][upstream' # upstream =>
       LET lines == Split(buffer \o upstream'[Len(upstream')]).lines
           kept  == {k \in DOMAIN lines : ~IsDropped(lines[k])}
       IN /\ Len(decodeLog') - Len(decodeLog) <= Cardinality(kept)
          /\ \A k \in (Len(decodeLog) + 1)..Len(decodeLog') :
               \E l \in kept : decodeLog'[k].payload = DataStr(lines[l])
          /\ kept = {} =>
               /\ UNCHANGED <<previousReasoning, previousAnswer, reasoningPhase,
                              frames, decodeLog, updates>>
     ]_vars

\* the sentinel [DONE] came in mid-stream, and the chunk after it was translated
C20_Witness ==
  /\ Len(upstream) = 2
  /\ upstream[1] = DataLine(<<Txt("[DONE]")>>) \o <<NL>>
  /\ decodeLog # <<>>
  /\ \E i \in DOMAIN frames : IsDelta(frames[i])

-----------------------------------------------------------------------------
(* Chunk boundaries *)

\* C21: however the upstream text is divided into chunks, the lines the data
\* handler has split off are the complete lines of the chunks put together,
\* each once and in order, and the carry-over buffer holds the unterminated
\* remainder; a line that arrived in several chunks is yielded whole.
C21_SameLinesAnyChunking ==
  /\ yielded = Split(Join(upstream)).lines
  /\ buffer = Split(Join(upstream)).rest

\* a line that arrived in two chunks has been yielded, nothing is left over
C21_Witness ==
  /\ Len(upstream) = 2
  /\ Split(upstream[1]).lines = <<>>
  /\ Split(upstream[1]).rest # <<>>
  /\ Len(yielded) = 1
  /\ yielded[1] = upstream[1] \o Split(upstream[2]).lines[1]
  /\ StartsWithData(yielded[1])
  /\ buffer = <<>>

-----------------------------------------------------------------------------
(* The tracked values and what has been emitted *)

HasKey(out, key) == \E i \in DOMAIN out : out[i].key = key

\* C26: in every reachable state the texts of the answer deltas emitted so far
\* are together as long as previousAnswer, and the texts of the reasoning
\* deltas as long as previousReasoning; an update changes a tracked value
\* exactly when it emits a frame for that section.
C26_EmittedLengthIsTracked ==
  /\ Len(AnswerEmitted) = Len(previousAnswer)
  /\ Len(ReasoningEmitted) = Len(previousReasoning)
  /\ \A i \in DOMAIN updates :
       /\ updates[i].postAnswer # updates[i].preAnswer
            <=> HasKey(updates[i].emitted, "content")
       /\ updates[i].postReasoning # updates[i].preReasoning
            <=> HasKey(updates[i].emitted, "reasoning_content")

\* a snapshot sequence that is not append-only: the second answer is shorter
\* than the first and emits nothing, after reasoning was emitted too
C26_Witness ==
  /\ ~AppendOnly
  /\ Len(updates) = 2
  /\ Len(updates[2].answer) < Len(updates[1].answer)
  /\ updates[2].emitted = <<>>
  /\ previousAnswer # <<>>
  /\ previousReasoning # <<>>

\* C27: the inner branch of the transition from Reasoning to Answering never
\* emits a frame: when it is entered, the reasoning delta it computes against
\* the tracked value left by the reasoning step is empty or blank.
C27_FlushNeverEmits ==
  \A i \in DOMAIN updates :
    /\ updates[i].flushOut = <<>>
    /\ updates[i].flushEntered =>
         Trim(calculateDeltaContent(updates[i].postReasoning,
                                    updates[i].reasoning)) = <<>>

\* the inner branch was entered: the snapshot that brings the first answer
\* has a reasoning section that differs from the tracked one
C27_Witness ==
  \E i \in DOMAIN updates :
    /\ updates[i].flushEntered
    /\ updates[i].prePhase /\ ~updates[i].postPhase
    /\ updates[i].reasoning # updates[i].postReasoning
    /\ HasKey(updates[i].emitted, "content")

-----------------------------------------------------------------------------
(* Upstream calls and the role announcement of the Readable *)

\* every invocation of read() makes its own upstream call (index.js:642)
UpstreamCalls == Len(flows)

\* C23 as stated: one client request causes at most one upstream call, also
\* when the stream's read routine is invoked again.
C23_AtMostOneUpstreamCall == UpstreamCalls <= 1

\* C28 as stated: once the request has started, exactly one role announcement
\* has been emitted, as the first frame, whatever became of the upstream call.
C28_OneRoleFrameBeforeCall ==
  flows # <<>> =>
    /\ frames # <<>>
    /\ frames[1] = RoleFrame
    /\ Cardinality({i \in DOMAIN frames : frames[i].key = "role"}) = 1

-----------------------------------------------------------------------------
(* Writes to a response that is over *)

\* res.end() was called, or the client has closed the connection (the
\* response is destroyed with its socket; index.js:366 destroys the Readable)
ResponseOver == clientClosed \/ status \in {"ended", "errored", "refused", "failed"}

\* C30 as stated: once the response has been ended or destroyed, no later
\* callback of the upstream body writes or pushes a frame to it.
C30_NoWriteWhenOver == [][ResponseOver => frames' = frames]_vars

-----------------------------------------------------------------------------
(* Every response is closed *)

\* res.end() has been called
Closed == status \in {"ended", "errored", "refused", "failed"}

-----------------------------------------------------------------------------
(* Stream identifier and creation time *)

\* C24: every chunk a streaming request has written (role announcement,
\* deltas, closing chunk) carries the id and the created value fixed when the
\* request started; the frames that are not chunks carry none.
C24_SameIdAndCreated ==
  \A r \in Requests :
    LET q == requests[r]
    IN /\ \A i \in DOMAIN q.stamps :
            /\ q.stamps[i] = q.stamps[1]
            /\ q.stamps[i].id = q.streamId
            /\ q.stamps[i].created = q.createdTime
       /\ Len(q.stamps) =
            Cardinality({j \in DOMAIN q.frames : q.frames[j].type = "chunk"})

\* a request that started before the clock moved and wrote the role
\* announcement, a delta and the closing chunk
C24_Witness ==
  /\ requests["a"].status = "ended"
  /\ requests["a"].createdTime < clock
  /\ Len(requests["a"].stamps) >= 3
  /\ \E j \in DOMAIN requests["a"].frames : IsDelta(requests["a"].frames[j])
  /\ \E j \in DOMAIN requests["a"].frames : requests["a"].frames[j] = StopFrame

-----------------------------------------------------------------------------
(* Chunk boundaries inside a character *)

\* C22 as stated: in every streaming and aggregation path the text decoded
\* from the chunks, with what the decoder still holds, is the text of the
\* bytes decoded in one piece, wherever the chunk boundaries fall.
C22_SameTextAnyBoundary ==
  bytesText \o Flush(bytesPending) = toString(Join(bytesIn)).text

-----------------------------------------------------------------------------
(* Client keys *)

\* the keys of a setting: its comma-separated entries without the blanks
\* around them, the empty ones left out
ConfiguredKeys(text) ==
  LET commas == {i \in DOMAIN text : text[i] = ","} \cup {0, Len(text) + 1}
  IN {Trim(SubSeq(text, i + 1, j - 1)) :
        <<i, j>> \in {p \in commas \X commas :
                        /\ p[1] < p[2]
                        /\ \A k \in commas : ~(p[1] < k /\ k < p[2])}}
       \ {<<>>}

\* the header, without "Bearer " in front if it has it, is a configured key
HeaderHasKey ==
  /\ authHeader.present
  /\ \/ authHeader.text \in ConfiguredKeys(authEnv.text)
     \/ /\ authHeader.text # <<>>
        /\ Head(authHeader.text) = "Bearer "
        /\ Tail(authHeader.text) \in ConfiguredKeys(authEnv.text)

\* the request got 401 and no upstream call
Refused401 ==
  /\ authResult \in {"API key required", "Invalid API key"}
  /\ authCalls = 0

Forwarded == authResult = "next"

-----------------------------------------------------------------------------
(* The frames as a function of the upstream text *)

\* the deltas the data handler writes when text arrives as one chunk
OneChunkDeltas(text) ==
  ProcessLines(Split(text).lines,
               EngineState(<<>>, <<>>, <<>>, TRUE, <<>>, <<>>, FALSE, 0, <<>>)).frames

\* C31 as stated: the deltas written so far are those of the upstream text
\* received so far delivered as one chunk, wherever the chunk boundaries
\* fell, also when a done:true line is followed by further data lines.
C31_FramesOfTextOnly ==
  SelectSeq(frames, IsDelta) = OneChunkDeltas(Join(upstream))

-----------------------------------------------------------------------------
(* What is left in the buffer when the body ends *)

\* the payloads of the complete data lines among lines
PayloadsOf(lines) ==
  {DataStr(lines[i]) : i \in {j \in DOMAIN lines : StartsWithData(lines[j])}}

\* C32: what the carry-over buffer holds when the upstream body ends is
\* dropped.  Every payload decoded, in streaming and in aggregation mode,
\* is the payload of a line that was terminated by a newline; the 'end'
\* handler of the streaming request decodes nothing, updates nothing and
\* adds the closing frames only; the 'end' handler of the aggregation adds
\* no piece and resolves with the answer of the pieces collected before.
C32_LeftoverDiscarded ==
  /\ [](/\ \A i \in DOMAIN decodeLog :
             decodeLog[i].payload \in PayloadsOf(yielded)
        /\ \A i \in DOMAIN aggDecodeLog :
             aggDecodeLog[i].payload \in PayloadsOf(Split(Join(upstream)).lines)
        /\ aggStatus = "resolved" => aggResult = AggregateResult(pieces))
  /\ [][/\ (status = "streaming" /\ status' = "ended") =>
             /\ frames' = frames \o <<StopFrame, DoneFrame>>
             /\ decodeLog' = decodeLog
             /\ updates' = updates
             /\ previousAnswer' = previousAnswer
             /\ previousReasoning' = previousReasoning
        /\ (aggStatus = "reading" /\ aggStatus' = "resolved") =>
             /\ pieces' = pieces
             /\ aggDecodeLog' = aggDecodeLog]_vars

\* both requests are over with a whole data line left in their buffers, its
\* answer in no delta and in no piece
C32_Witness ==
  /\ status = "ended"
  /\ aggStatus = "resolved"
  /\ buffer = AnswerLine(<<"h">>)
  /\ aggBuffer = AnswerLine(<<"h">>)
  /\ AnswerEmitted = <<>>
  /\ pieces = <<>>
  /\ aggResult = <<>>
  /\ frames = <<RoleFrame, StopFrame, DoneFrame>>

=============================================================================
